---- MODULE Spec2Model ----
(***************************************************************************)
(* Graph building of histocartography/preprocessing/graph_builders.py:     *)
(* BaseGraphBuilder.process / process_and_save, RAGGraphBuilder,           *)
(* KNNGraphBuilder and two_hop_neighborhood, with the on-disk graph cache. *)
(***************************************************************************)
EXTENDS Integers, Sequences, FiniteSets, TLC

(* ------------------------------ bounds --------------------------------- *)
\* instance maps have 1..MaxH rows, 1..MaxW columns, at most MaxCells pixels
MaxH == 2
MaxW == 3
MaxCells == 4
\* largest region id of an instance map
MaxId == 3
\* instance maps handed to process_and_save have at most MaxCacheCells pixels
MaxCacheCells == 2
\* point sets of the kNN builder: at most MaxPoints points on 0..MaxCoord
MaxPoints == 3
MaxCoord == 2
\* process and process_and_save calls in one behaviour
MaxCalls == 3

\* an optional value: None, or Some(x)
None == <<>>
Some(x) == <<x>>
NoErr == "None"

(* --------------------------- small helpers ----------------------------- *)
Min(S) == CHOOSE x \in S : \A y \in S : x <= y

RECURSIVE SortedSeq(_)
\* np.sort of a set of integers
SortedSeq(S) == IF S = {} THEN <<>> ELSE <<Min(S)>> \o SortedSeq(S \ {Min(S)})

Range(s) == {s[i] : i \in DOMAIN s}

RECURSIVE SumOver(_, _)
SumOver(S, f) ==
    IF S = {} THEN 0
    ELSE LET x == CHOOSE y \in S : TRUE IN f[x] + SumOver(S \ {x}, f)

\* Python round() of the rational num/den (den > 0, num >= 0): half to even
Round(num, den) ==
    LET q == num \div den
        r == num % den
    IN IF 2 * r < den THEN q
       ELSE IF 2 * r > den THEN q + 1
       ELSE IF q % 2 = 0 THEN q ELSE q + 1

(* ---------------------------- instance maps ---------------------------- *)
Pixels(h, w) == (1..h) \X (1..w)

InstanceIds(m) == {m.px[p] : p \in DOMAIN m.px}

\* positive ids are compact: 1..n
Compact(m) == LET pos == InstanceIds(m) \ {0} IN pos = 1..Cardinality(pos)

Dtypes == {"int64", "uint8"}

MapsOfSize(cells) ==
    { m \in UNION { [h : {d[1]}, w : {d[2]}, dtype : Dtypes,
                     px : [Pixels(d[1], d[2]) -> 0..MaxId]] :
                    d \in {e \in (1..MaxH) \X (1..MaxW) : e[1] * e[2] <= cells} } :
        Compact(m) }

InstanceMaps == MapsOfSize(MaxCells)

\* np.ravel: the pixels row by row
Ravel(m) == [i \in 1..(m.h * m.w) |-> m.px[<<((i - 1) \div m.w) + 1, ((i - 1) % m.w) + 1>>]]

RECURSIVE Unique(_)
\* pd.unique: the distinct values in order of first appearance
Unique(s) ==
    IF s = <<>> THEN <<>>
    ELSE LET init == Unique(SubSeq(s, 1, Len(s) - 1))
             last == s[Len(s)]
         IN IF last \in Range(init) THEN init ELSE Append(init, last)

\* instance_map == region_label, as the set of pixels
Mask(m, id) == {p \in DOMAIN m.px : m.px[p] = id}

\* cv2.dilate(mask, np.ones((k, k)), iterations=1): anchor at the kernel centre,
\* pixels outside the image do not contribute
Dilate(m, mask, k) ==
    LET a == k \div 2
    IN {p \in DOMAIN m.px :
          \E i \in 0..(k - 1), j \in 0..(k - 1) :
             <<p[1] + i - a, p[2] + j - a>> \in mask}

(* ------------------------------- graphs -------------------------------- *)
\* dgl.DGLGraph(): nodes 0..num_nodes-1, node data by key, edges in insertion order
EmptyNData == [feat |-> None, centroid |-> None, label |-> None]

DGLGraph == [num_nodes |-> 0, ndata |-> EmptyNData, edges |-> <<>>]

add_nodes(graph, num) == [graph EXCEPT !.num_nodes = @ + num]

\* outcomes of an operation that returns a graph or raises
Ok(graph) == [kind |-> "graph", graph |-> graph, err |-> NoErr]
Raise(err) == [kind |-> "error", graph |-> None, err |-> err]

\* an assignment that takes an array of any length
set_ndata_unchecked(graph, key, val) ==
    Ok([graph EXCEPT !.ndata = [@ EXCEPT ![key] = Some(val)]])

\* graph.ndata[key] = val: dgl rejects an array whose length is not the node count
set_ndata(graph, key, val) ==
    IF Len(val) # graph.num_nodes THEN Raise("DGLError")
    ELSE Ok([graph EXCEPT !.ndata = [@ EXCEPT ![key] = Some(val)]])

\* graph.add_edges(src, dst): dgl rejects a node id outside 0..num_nodes-1
add_edges(graph, pairs) ==
    IF \E i \in DOMAIN pairs : \E e \in {pairs[i][1], pairs[i][2]} :
          e < 0 \/ e >= graph.num_nodes
    THEN Raise("DGLError")
    ELSE Ok([graph EXCEPT !.edges = @ \o pairs])

\* np.nonzero of an n x n 0/1 matrix given as its set of nonzero (row, col):
\* the index pairs in row-major order
NonZero(adj, n) ==
    SelectSeq([i \in 1..(n * n) |-> <<(i - 1) \div n, (i - 1) % n>>],
              LAMBDA e : e \in adj)

EdgeSet(graph) == Range(graph.edges)

(* ------------------------- two_hop_neighborhood ------------------------ *)
\* (A + A.matmul(A)) >= 1
ReachTwo(A, n) ==
    {e \in (0..(n - 1)) \X (0..(n - 1)) :
        e \in A \/ \E k \in 0..(n - 1) : <<e[1], k>> \in A /\ <<k, e[2]>> \in A}

\* nonzero entries of A_tilde = 1.0 * ((A + A.A) >= 1) - eye(n): the off-diagonal
\* ones, and a -1 on the diagonal wherever (A + A.A)[i][i] = 0
ATildeNonZero(A, n) ==
    LET R == ReachTwo(A, n)
    IN {e \in R : e[1] # e[2]} \cup {<<i, i>> : i \in {j \in 0..(n - 1) : <<j, j>> \notin R}}

two_hop_neighborhood(graph) ==
    LET n == graph.num_nodes
        nz == ATildeNonZero(EdgeSet(graph), n)
        \* from_numpy_matrix builds an undirected graph, from_networkx makes
        \* both directions of each of its edges
        sym == nz \cup {<<e[2], e[1]>> : e \in nz}
    IN [num_nodes |-> n, ndata |-> graph.ndata, edges |-> NonZero(sym, n)]

RECURSIVE HopLoop(_, _)
\* for _ in range(times): graph = two_hop_neighborhood(graph)
HopLoop(graph, times) ==
    IF times <= 0 THEN graph ELSE HopLoop(two_hop_neighborhood(graph), times - 1)

(* --------------------------- RAGGraphBuilder --------------------------- *)
\* regionprops(instance_map): one region per positive id present, ascending;
\* centroid = (x, y) = rounded mean (column, row) of the region's pixels, 0-based
RAG_set_node_centroids(instance_map) ==
    LET ids == SortedSeq(InstanceIds(instance_map) \ {0})
        centre(id) ==
            LET mask == Mask(instance_map, id)
                cnt == Cardinality(mask)
                sum_y == SumOver(mask, [p \in mask |-> p[1] - 1])
                sum_x == SumOver(mask, [p \in mask |-> p[2] - 1])
            IN <<Round(sum_x, cnt), Round(sum_y, cnt)>>
    IN [i \in 1..Len(ids) |-> centre(ids[i])]

\* fast_histogram(values, nr_values): the count of each value 0..nr_values-1
fast_histogram(annotation, pixels, nr_values) ==
    [c \in 0..(nr_values - 1) |-> Cardinality({p \in pixels : annotation[p] = c})]

\* np.argmax: the first index of the largest value
ArgMax(histogram) ==
    Min({c \in DOMAIN histogram : \A d \in DOMAIN histogram : histogram[d] <= histogram[c]})

\* the class with the most pixels, the background class included
RegionAssignment_majority(self, instance_map, annotation, region_label) ==
    ArgMax(fast_histogram(annotation, Mask(instance_map, region_label), self.nr_classes))

\* lines 216-225: the label of one region, with the background bin suppressed
RegionAssignment(self, instance_map, annotation, region_label) ==
    LET histogram == fast_histogram(annotation, Mask(instance_map, region_label),
                                    self.nr_classes)
        others == DOMAIN histogram \ {self.background_class}
    IN IF SumOver(others, histogram) = 0
       THEN self.background_class
       ELSE ArgMax([histogram EXCEPT ![self.background_class] = 0])

\* a Python index into an array of length n: negative indices count from the end
PyIndex(i, n) == IF i < 0 THEN i + n ELSE i

\* the labels array of _set_node_labels, or the error it raises. region_labels
\* are ALL distinct values of the map, background 0 included; the entry written
\* for region_label is region_label - 1
RAG_set_node_labels(self, instance_map, annotation) ==
    IF ~(self.nr_classes < 256) THEN Raise("AssertionError")
    ELSE
      LET region_labels == Unique(Ravel(instance_map))
          len == Len(region_labels)
          slot(region_label) == PyIndex(region_label - 1, len)
      IN IF \E i \in 1..len : slot(region_labels[i]) \notin 0..(len - 1)
         THEN Raise("IndexError")
         ELSE [kind |-> "labels", err |-> NoErr,
               labels |->
                 [i \in 1..len |->
                    \* the last write to entry i-1 wins; an entry never written
                    \* keeps the uninitialised memory of torch.empty (-1 here;
                    \* with compact ids every entry is written)
                    LET writers == {j \in 1..len : slot(region_labels[j]) = i - 1}
                    IN IF writers = {} THEN -1
                       ELSE RegionAssignment(self, instance_map, annotation,
                                region_labels[CHOOSE j \in writers : \A l \in writers : l <= j])]]

\* instance_map[boundary]: the ids under dilation - mask, each less one. On an
\* unsigned map the in-place idx -= 1 wraps 0 to the largest value of the dtype
RingIndices(self, instance_map, instance_id) ==
    LET mask == Mask(instance_map, instance_id)
        boundary == Dilate(instance_map, mask, self.kernel_size) \ mask
        idx == {instance_map.px[p] : p \in boundary}
    IN {IF instance_map.dtype = "uint8" THEN (j - 1) % 256 ELSE j - 1 : j \in idx}

\* lines 236-250: the nonzero entries of adjacency, or IndexError
RAG_adjacency(self, instance_map) ==
    LET instance_ids == InstanceIds(instance_map) \ {0}
        n == Cardinality(instance_ids)
        cols(id) == RingIndices(self, instance_map, id)
    IN IF \E id \in instance_ids :
             PyIndex(id - 1, n) \notin 0..(n - 1)
             \/ \E c \in cols(id) : PyIndex(c, n) \notin 0..(n - 1)
       THEN Raise("IndexError")
       ELSE [kind |-> "adjacency", err |-> NoErr, n |-> n,
             nonzero |-> UNION {{<<PyIndex(id - 1, n), PyIndex(c, n)>> : c \in cols(id)} :
                                id \in instance_ids}]

\* the two-step pairs alone: (A.matmul(A) >= 1) off the diagonal
SquareOnly(graph) ==
    LET n == graph.num_nodes
        A == EdgeSet(graph)
    IN [graph EXCEPT !.edges =
          NonZero({e \in (0..(n - 1)) \X (0..(n - 1)) :
                     e[1] # e[2] /\ \E k \in 0..(n - 1) : <<e[1], k>> \in A /\ <<k, e[2]>> \in A},
                  n)]

RECURSIVE SquareLoop(_, _)
SquareLoop(graph, times) ==
    IF times <= 0 THEN graph ELSE SquareLoop(SquareOnly(graph), times - 1)

\* a hop loop that updates the caller's graph and keeps the two-step pairs only
RAG_build_topology_square(self, instance_map, graph) ==
    LET adjacency == RAG_adjacency(self, instance_map)
    IN IF adjacency.kind = "error" THEN adjacency
       ELSE LET added == add_edges(graph, NonZero(adjacency.nonzero, adjacency.n))
            IN IF added.kind = "error" THEN added
               ELSE Ok(SquareLoop(added.graph, self.hops - 1))

\* _build_topology: the edges are added to the caller's graph; the hop loop
\* rebinds the local name graph only, so the caller's graph keeps the 1-hop edges
RAG_build_topology(self, instance_map, graph) ==
    LET adjacency == RAG_adjacency(self, instance_map)
    IN IF adjacency.kind = "error" THEN adjacency
       ELSE LET added == add_edges(graph, NonZero(adjacency.nonzero, adjacency.n))
            IN IF added.kind = "error" THEN added
               ELSE LET local == HopLoop(added.graph, self.hops - 1)  \* never returned
                    IN added

(* --------------------------- KNNGraphBuilder --------------------------- *)
\* squared Euclidean distance of two points
Dist2(a, b) == (a[1] - b[1]) * (a[1] - b[1]) + (a[2] - b[2]) * (a[2] - b[2])

\* a filter that keeps the edges at a distance of exactly thresh
WithinThresh_inclusive(a, b, thresh) == thresh >= 0 /\ Dist2(a, b) <= thresh * thresh

\* compute_l2_distance(a, b) < thresh, on the squares
WithinThresh(a, b, thresh) == thresh > 0 /\ Dist2(a, b) < thresh * thresh

\* kneighbors_graph(centroids, k, mode="distance", include_self=False): for
\* each point the k nearest other points, nearest first. Equidistant candidates
\* are ordered by the search structure; tie names the order it produces
KNN_neighbors(self, centroids, i) ==
    LET n == Len(centroids)
        others == (1..n) \ {i}
        d(j) == Dist2(centroids[i], centroids[j])
        before(l, j) == d(l) < d(j)
                        \/ (d(l) = d(j) /\ IF self.tie = "low" THEN l < j ELSE l > j)
        rank(j) == Cardinality({l \in others : before(l, j)})
    IN [p \in 1..self.k |-> CHOOSE j \in others : rank(j) = p - 1]

RECURSIVE KNN_rows(_, _, _)
\* np.nonzero(adj) row by row: a stored distance of 0 is not a nonzero entry;
\* then the filter on thresh
KNN_rows(self, centroids, i) ==
    IF i > Len(centroids) THEN <<>>
    ELSE LET nb == KNN_neighbors(self, centroids, i)
             row == [p \in 1..Len(nb) |-> <<i - 1, nb[p] - 1>>]
             keep(e) == /\ Dist2(centroids[e[1] + 1], centroids[e[2] + 1]) # 0
                        /\ (self.thresh = None
                            \/ WithinThresh(centroids[e[1] + 1], centroids[e[2] + 1],
                                            self.thresh[1]))
         IN SelectSeq(row, keep) \o KNN_rows(self, centroids, i + 1)

KNN_build_topology(self, centroids, graph) ==
    LET n == Len(centroids)
    IN IF n = 0 \/ self.k <= 0 \/ self.k + 1 > n
       THEN Raise("ValueError")   \* raised by kneighbors_graph
       ELSE add_edges(graph, KNN_rows(self, centroids, 1))

(* --------------------------- BaseGraphBuilder -------------------------- *)
_set_node_centroids(self, structure) ==
    IF self.kind = "RAG" THEN RAG_set_node_centroids(structure) ELSE structure

_set_node_labels(self, structure, annotation) ==
    IF self.kind = "RAG" THEN RAG_set_node_labels(self, structure, annotation)
    ELSE [kind |-> "labels", err |-> NoErr, labels |-> annotation]

_build_topology(self, structure, graph) ==
    IF self.kind = "RAG" THEN RAG_build_topology(self, structure, graph)
    ELSE KNN_build_topology(self, structure, graph)

\* process(structure, features, annotation): the graph, or the first error
process(self, structure, features, annotation) ==
    LET num_nodes == Len(features)
        graph == add_nodes(DGLGraph, num_nodes)
        withFeat == set_ndata(graph, "feat", features)
        withCent == set_ndata(withFeat.graph, "centroid",
                              _set_node_centroids(self, structure))
    IN IF withCent.kind = "error" THEN withCent
       ELSE LET labels == _set_node_labels(self, structure, annotation[1])
                withLab == IF annotation = None THEN withCent
                           ELSE IF labels.kind = "error" THEN labels
                           ELSE set_ndata(withCent.graph, "label", labels.labels)
            IN IF withLab.kind = "error" THEN withLab
               ELSE _build_topology(self, structure, withLab.graph)

(* ----------------------------- constructors ---------------------------- *)
\* a hops argument: its Python type and twice its value (1.5 is float, 3)
HopArgs ==
    [type : {"int"}, twice : {-2, 0, 2, 4, 6}]
    \cup [type : {"float"}, twice : {1, 3, 4}]
    \cup [type : {"bool"}, twice : {0, 2}]
    \cup [type : {"NoneType"}, twice : {0}]

Built(obj) == [kind |-> "builder", builder |-> obj, err |-> NoErr]
NotBuilt(err) == [kind |-> "error", builder |-> None, err |-> err]

\* BaseGraphBuilder.__init__: PipelineStep.__init__(base_path=...) keeps
\* base_path; nr_classes and background_class are stored unchecked
BaseGraphBuilder(obj, args) ==
    [obj EXCEPT !.base_path = args.base_path,
                !.nr_classes = args.nr_classes,
                !.background_class = args.background_class]

\* the attributes of a builder; one that a class does not have is 0 or "None"
NoFields == [kind |-> "None", kernel_size |-> 0, hops |-> 0, k |-> 0,
             thresh |-> None, tie |-> "None", nr_classes |-> 0,
             background_class |-> 0, base_path |-> "None"]

\* the assertion as its message words it: "Must be integer >= 0"
RAGGraphBuilder_nonneg(args) ==
    IF args.hops.type = "NoneType" THEN NotBuilt("TypeError")
    ELSE IF ~(args.hops.twice >= 0 /\ args.hops.type \in {"int", "bool"})
    THEN NotBuilt("AssertionError")
    ELSE Built(BaseGraphBuilder(
                 [NoFields EXCEPT !.kind = "RAG",
                                  !.kernel_size = args.kernel_size,
                                  !.hops = args.hops.twice \div 2],
                 args))

\* RAGGraphBuilder.__init__(kernel_size, hops, **kwargs)
RAGGraphBuilder(args) ==
    IF args.hops.type = "NoneType" THEN NotBuilt("TypeError")   \* None > 0
    ELSE IF ~(args.hops.twice > 0 /\ args.hops.type \in {"int", "bool"})
    THEN NotBuilt("AssertionError")
    ELSE Built(BaseGraphBuilder(
                 [NoFields EXCEPT !.kind = "RAG",
                                  !.kernel_size = args.kernel_size,
                                  !.hops = args.hops.twice \div 2],
                 args))

\* KNNGraphBuilder.__init__(k, thresh, **kwargs)
KNNGraphBuilder(args) ==
    Built(BaseGraphBuilder(
            [NoFields EXCEPT !.kind = "KNN", !.k = args.k, !.thresh = args.thresh,
                             !.tie = args.tie],
            args))

NewBuilder(args) ==
    IF args.kind = "RAG" THEN RAGGraphBuilder(args) ELSE KNNGraphBuilder(args)

\* (nr_classes, background_class) pairs of the configurations
ClassConfigs == {<<3, 0>>, <<3, 2>>, <<256, 4>>, <<300, 4>>}

BasePaths == {"None", "graphs"}

RAGArgs ==
    {[kind |-> "RAG", kernel_size |-> ks, hops |-> h, k |-> 0, thresh |-> None,
      tie |-> "None", nr_classes |-> cc[1], background_class |-> cc[2], base_path |-> bp] :
        ks \in {1, 2, 3}, h \in HopArgs, cc \in ClassConfigs, bp \in BasePaths}

KNNArgs ==
    {[kind |-> "KNN", kernel_size |-> 0, hops |-> [type |-> "NoneType", twice |-> 0],
      k |-> k, thresh |-> t,
      tie |-> tie, nr_classes |-> cc[1], background_class |-> cc[2], base_path |-> bp] :
        k \in {1, 2}, t \in {None, Some(1), Some(2)}, tie \in {"low", "high"},
        cc \in {<<3, 0>>}, bp \in BasePaths}

BuilderArgs == RAGArgs \cup KNNArgs

(* ------------------------------- inputs -------------------------------- *)
\* the feature matrix of r rows (row i is the feature vector of node i)
Features(r) == [i \in 1..r |-> 10 + i]

\* pixel annotations of an instance map
PixelAnnotations(m) ==
    {[p \in DOMAIN m.px |-> c] : c \in 0..2}
    \cup {[p \in DOMAIN m.px |-> (p[1] + p[2]) % 3]}
    \cup {[p \in DOMAIN m.px |-> IF p = <<1, 1>> THEN 1 ELSE 0]}

RowCounts(n) == {r \in {n - 1, n, n + 1} : r >= 0}

RAGInputs(maps) ==
    UNION {[structure : {m},
            features : {Features(r) : r \in RowCounts(Cardinality(InstanceIds(m) \ {0}))},
            annotation : {None} \cup {Some(a) : a \in PixelAnnotations(m)}] : m \in maps}

Points == (0..MaxCoord) \X (0..1)

PointSets == UNION {[1..n -> Points] : n \in 0..MaxPoints}

KNNInputs(sets) ==
    UNION {[structure : {c},
            features : {Features(r) : r \in RowCounts(Len(c))},
            annotation : {None} \cup {Some([i \in 1..r |-> i % 2]) :
                                         r \in {Len(c), Len(c) + 1}}] :
           c \in sets}

(* ----------------------------- graph cache ----------------------------- *)
Names == {"a", "b"}

NDataKeys == {"feat", "centroid", "label"}

\* the file of a name in output_dir: absent, or a list of serialized graphs
NoFile == [exists |-> FALSE, graphs |-> <<>>]
File(graphs) == [exists |-> TRUE, graphs |-> graphs]

\* save_graphs(path, [graph]): the node count, the source and destination
\* arrays of the edges and the node tensors that are set
Serialize(graph) ==
    [num_nodes |-> graph.num_nodes,
     src |-> [i \in DOMAIN graph.edges |-> graph.edges[i][1]],
     dst |-> [i \in DOMAIN graph.edges |-> graph.edges[i][2]],
     node_tensors |-> {<<key, graph.ndata[key][1]>> :
                         key \in {l \in NDataKeys : graph.ndata[l] # None}}]

save_graphs(graphs) == [i \in DOMAIN graphs |-> Serialize(graphs[i])]

\* a load that reads the two edge arrays in the other order
Deserialize_swapped(data) ==
    [num_nodes |-> data.num_nodes,
     ndata |-> [key \in NDataKeys |->
                  IF \E t \in data.node_tensors : t[1] = key
                  THEN Some((CHOOSE t \in data.node_tensors : t[1] = key)[2])
                  ELSE None],
     edges |-> [i \in DOMAIN data.src |-> <<data.dst[i], data.src[i]>>]]

Deserialize(data) ==
    [num_nodes |-> data.num_nodes,
     ndata |-> [key \in NDataKeys |->
                  IF \E t \in data.node_tensors : t[1] = key
                  THEN Some((CHOOSE t \in data.node_tensors : t[1] = key)[2])
                  ELSE None],
     edges |-> [i \in DOMAIN data.src |-> <<data.src[i], data.dst[i]>>]]

load_graphs(artifact) == [i \in DOMAIN artifact |-> Deserialize(artifact[i])]

\* the result of process_and_save: what is returned or raised, the storage it
\* leaves, and whether it ran process, load_graphs and save_graphs
PASResult(outcome, store, built, loaded, saved) ==
    [outcome |-> outcome, storage |-> store, built |-> built, loaded |-> loaded,
     saved |-> saved]

\* process_and_save without the assertion on base_path
process_and_save_unchecked(self, store, output_name, structure, features, annotation) ==
    IF store[output_name].exists
    THEN LET graphs == load_graphs(store[output_name].graphs)
         IN IF Len(graphs) # 1
            THEN PASResult(Raise("AssertionError"), store, FALSE, TRUE, FALSE)
            ELSE PASResult(Ok(graphs[1]), store, FALSE, TRUE, FALSE)
    ELSE LET built == process(self, structure, features, annotation)
         IN IF built.kind = "error"
            THEN PASResult(built, store, TRUE, FALSE, FALSE)
            ELSE PASResult(built,
                           [store EXCEPT ![output_name] = File(save_graphs(<<built.graph>>))],
                           TRUE, FALSE, TRUE)

\* process_and_save that never looks for the file: it builds and saves each time
process_and_save_rebuild(self, store, output_name, structure, features, annotation) ==
    IF self.base_path = "None"
    THEN PASResult(Raise("AssertionError"), store, FALSE, FALSE, FALSE)
    ELSE LET built == process(self, structure, features, annotation)
         IN IF built.kind = "error"
            THEN PASResult(built, store, TRUE, FALSE, FALSE)
            ELSE PASResult(built,
                           [store EXCEPT ![output_name] = File(save_graphs(<<built.graph>>))],
                           TRUE, FALSE, TRUE)

\* process_and_save that returns the built graph without save_graphs
process_and_save_unsaved(self, store, output_name, structure, features, annotation) ==
    IF self.base_path = "None"
    THEN PASResult(Raise("AssertionError"), store, FALSE, FALSE, FALSE)
    ELSE IF store[output_name].exists
    THEN LET graphs == load_graphs(store[output_name].graphs)
         IN IF Len(graphs) # 1
            THEN PASResult(Raise("AssertionError"), store, FALSE, TRUE, FALSE)
            ELSE PASResult(Ok(graphs[1]), store, FALSE, TRUE, FALSE)
    ELSE LET built == process(self, structure, features, annotation)
         IN PASResult(built, store, TRUE, FALSE, FALSE)

\* process_and_save that builds again when the file does not hold one graph
process_and_save_recover(self, store, output_name, structure, features, annotation) ==
    IF self.base_path = "None"
    THEN PASResult(Raise("AssertionError"), store, FALSE, FALSE, FALSE)
    ELSE IF store[output_name].exists /\ Len(load_graphs(store[output_name].graphs)) = 1
    THEN PASResult(Ok(load_graphs(store[output_name].graphs)[1]), store, FALSE, TRUE, FALSE)
    ELSE LET built == process(self, structure, features, annotation)
         IN IF built.kind = "error"
            THEN PASResult(built, store, TRUE, store[output_name].exists, FALSE)
            ELSE PASResult(built,
                           [store EXCEPT ![output_name] = File(save_graphs(<<built.graph>>))],
                           TRUE, store[output_name].exists, TRUE)

\* process_and_save that, on a miss, hands out a graph kept under another name
process_and_save_shared(self, store, output_name, structure, features, annotation) ==
    IF self.base_path = "None"
    THEN PASResult(Raise("AssertionError"), store, FALSE, FALSE, FALSE)
    ELSE IF store[output_name].exists
    THEN LET graphs == load_graphs(store[output_name].graphs)
         IN IF Len(graphs) # 1
            THEN PASResult(Raise("AssertionError"), store, FALSE, TRUE, FALSE)
            ELSE PASResult(Ok(graphs[1]), store, FALSE, TRUE, FALSE)
    ELSE LET kept == {n \in DOMAIN store : store[n].exists /\ Len(store[n].graphs) = 1}
             built == IF kept = {} THEN process(self, structure, features, annotation)
                      ELSE Ok(load_graphs(store[CHOOSE n \in kept : TRUE].graphs)[1])
         IN IF built.kind = "error"
            THEN PASResult(built, store, TRUE, FALSE, FALSE)
            ELSE PASResult(built,
                           [store EXCEPT ![output_name] = File(save_graphs(<<built.graph>>))],
                           TRUE, FALSE, TRUE)

\* process_and_save that creates the file before it builds, and leaves it
\* empty when process raises
process_and_save_touch(self, store, output_name, structure, features, annotation) ==
    IF self.base_path = "None"
    THEN PASResult(Raise("AssertionError"), store, FALSE, FALSE, FALSE)
    ELSE IF store[output_name].exists
    THEN LET graphs == load_graphs(store[output_name].graphs)
         IN IF Len(graphs) # 1
            THEN PASResult(Raise("AssertionError"), store, FALSE, TRUE, FALSE)
            ELSE PASResult(Ok(graphs[1]), store, FALSE, TRUE, FALSE)
    ELSE LET built == process(self, structure, features, annotation)
         IN IF built.kind = "error"
            THEN PASResult(built, [store EXCEPT ![output_name] = File(<<>>)],
                           TRUE, FALSE, FALSE)
            ELSE PASResult(built,
                           [store EXCEPT ![output_name] = File(save_graphs(<<built.graph>>))],
                           TRUE, FALSE, TRUE)

process_and_save(self, store, output_name, structure, features, annotation) ==
    IF self.base_path = "None"
    THEN PASResult(Raise("AssertionError"), store, FALSE, FALSE, FALSE)
    ELSE IF store[output_name].exists   \* output_path.exists()
    THEN LET graphs == load_graphs(store[output_name].graphs)
         IN IF Len(graphs) # 1
            THEN PASResult(Raise("AssertionError"), store, FALSE, TRUE, FALSE)
            ELSE PASResult(Ok(graphs[1]), store, FALSE, TRUE, FALSE)
    ELSE LET built == process(self, structure, features, annotation)
         IN IF built.kind = "error"
            THEN PASResult(built, store, TRUE, FALSE, FALSE)
            ELSE PASResult(built,
                           [store EXCEPT ![output_name] = File(save_graphs(<<built.graph>>))],
                           TRUE, FALSE, TRUE)

(* ------------------------------ the state ------------------------------ *)
VARIABLES
    builder,     \* the graph builder object (kind "None" before construction)
    storage,     \* output_dir: the file of each name
    call,        \* the last operation: its arguments and what it returned or raised
    called,      \* called[n]: process_and_save was called with name n before
    stored_by,   \* stored_by[n]: the graph returned by the first call that saved n
    ncalls,      \* the number of process and process_and_save calls made
    tasks,       \* concurrent process_and_save calls on one name: where each one is
    artifact     \* the file of that name: whether it exists, and the parts written

vars == <<builder, storage, call, called, stored_by, ncalls, tasks, artifact>>

\* no concurrent callers, and no file at their path
NoTasks ==
    /\ tasks = <<>>
    /\ artifact = [exists |-> FALSE, parts |-> <<>>]

NoHistory ==
    /\ called = [n \in Names |-> FALSE]
    /\ stored_by = [n \in Names |-> None]
    /\ ncalls = 0
    /\ NoTasks

Init ==
    /\ builder = NoFields
    /\ storage = [n \in Names |-> NoFile]
    /\ call = [op |-> "none"]
    /\ NoHistory

\* builder = RAGGraphBuilder(...) or KNNGraphBuilder(...)
Construct(argset) ==
    /\ builder.kind = "None"
    /\ \E args \in argset :
         LET made == NewBuilder(args)
         IN /\ builder' = IF made.kind = "builder" THEN made.builder ELSE builder
            /\ call' = [op |-> "init", args |-> args, outcome |-> made]
    /\ UNCHANGED <<storage, called, stored_by, ncalls, tasks, artifact>>

\* builder.process(structure, features, annotation)
Process(inputs) ==
    /\ builder.kind # "None"
    /\ ncalls < MaxCalls
    /\ ncalls' = ncalls + 1
    /\ \E inp \in inputs :
         call' = [op |-> "process", structure |-> inp.structure,
                  features |-> inp.features, annotation |-> inp.annotation,
                  outcome |-> process(builder, inp.structure, inp.features, inp.annotation)]
    /\ UNCHANGED <<builder, storage, called, stored_by, tasks, artifact>>

\* builder.process_and_save(output_name, structure, features, annotation)
ProcessAndSave(inputs) ==
    /\ builder.kind # "None"
    /\ ncalls < MaxCalls
    /\ ncalls' = ncalls + 1
    /\ \E output_name \in Names, inp \in inputs :
         LET res == process_and_save(builder, storage, output_name, inp.structure,
                                     inp.features, inp.annotation)
         IN /\ storage' = res.storage
            /\ call' = [op |-> "process_and_save", name |-> output_name,
                        structure |-> inp.structure, features |-> inp.features,
                        annotation |-> inp.annotation, outcome |-> res.outcome,
                        built |-> res.built, loaded |-> res.loaded, saved |-> res.saved,
                        first |-> ~called[output_name],
                        existed |-> storage[output_name].exists]
            /\ called' = [called EXCEPT ![output_name] = TRUE]
            /\ stored_by' = IF res.saved /\ stored_by[output_name] = None
                            THEN [stored_by EXCEPT ![output_name] = Some(res.outcome.graph)]
                            ELSE stored_by
    /\ UNCHANGED <<builder, tasks, artifact>>

(* ------------------- the builder with its graph cache ------------------ *)
CacheArgs ==
    {a \in BuilderArgs :
        /\ <<a.nr_classes, a.background_class>> \in {<<3, 0>>, <<300, 4>>}
        /\ a.kind = "RAG" => a.kernel_size = 3 /\ a.hops.twice <= 4
        /\ a.kind = "KNN" => a.k = 1 /\ a.thresh = None /\ a.tie = "low"}

\* the inputs of the calls: one-row int64 maps or points on the x axis, with
\* matching features and no or a constant annotation, or one feature row too many
CacheInputs(kind) ==
    IF kind = "RAG"
    THEN {inp \in RAGInputs({m \in MapsOfSize(MaxCacheCells) :
                                m.dtype = "int64" /\ m.h = 1}) :
            LET n == Cardinality(InstanceIds(inp.structure) \ {0})
            IN \/ Len(inp.features) = n
                  /\ inp.annotation \in {None, Some([p \in DOMAIN inp.structure.px |-> 1])}
               \/ Len(inp.features) = n + 1 /\ inp.annotation = None}
    ELSE {inp \in KNNInputs({c \in PointSets :
                                Len(c) <= MaxCacheCells /\ \A i \in DOMAIN c : c[i][2] = 0}) :
            \/ Len(inp.features) = Len(inp.structure)
               /\ inp.annotation \in {None, Some([i \in 1..Len(inp.structure) |-> i % 2])}
            \/ Len(inp.features) = Len(inp.structure) + 1 /\ inp.annotation = None}

Next ==
    \/ Construct(CacheArgs)
    \/ Process(CacheInputs(builder.kind))
    \/ ProcessAndSave(CacheInputs(builder.kind))

Spec == Init /\ [][Next]_vars

(* ------------------------- process on its own -------------------------- *)
BuildInputs(kind) ==
    IF kind = "RAG" THEN RAGInputs(InstanceMaps) ELSE KNNInputs(PointSets)

\* every builder that construction accepts, with every input pending
InitBuild ==
    /\ builder \in {NewBuilder(a).builder :
                      a \in {b \in BuilderArgs :
                               b.base_path = "None" /\ NewBuilder(b).kind = "builder"}}
    /\ storage = [n \in Names |-> NoFile]
    /\ \E inp \in BuildInputs(builder.kind) :
         call = [op |-> "pending", structure |-> inp.structure,
                 features |-> inp.features, annotation |-> inp.annotation]
    /\ NoHistory

ProcessPending ==
    /\ call.op = "pending"
    /\ Process({[structure |-> call.structure, features |-> call.features,
                 annotation |-> call.annotation]})

NextBuild == ProcessPending

SpecBuild == InitBuild /\ [][NextBuild]_vars

(* ---------------- process_and_save, then the same name again ----------- *)
StoreInputs(kind) ==
    IF kind = "RAG" THEN RAGInputs({m \in MapsOfSize(MaxCells - 1) : m.dtype = "int64"})
    ELSE KNNInputs(PointSets)

StoreArgs ==
    {a \in BuilderArgs :
        /\ a.base_path # "None" /\ a.nr_classes = 3 /\ a.background_class = 0
        /\ a.kind = "RAG" => a.kernel_size = 3 /\ a.hops.twice = 2
        /\ a.kind = "KNN" => a.tie = "low"}

\* builders with a storage location, with every input pending
InitStore ==
    /\ builder \in {NewBuilder(a).builder :
                      a \in {b \in StoreArgs : NewBuilder(b).kind = "builder"}}
    /\ storage = [n \in Names |-> NoFile]
    /\ \E inp \in StoreInputs(builder.kind) :
         call = [op |-> "pending", structure |-> inp.structure,
                 features |-> inp.features, annotation |-> inp.annotation]
    /\ NoHistory

\* the pending input under some name, then the calls that follow under that name
SavePending ==
    /\ call.op = "pending"
    /\ ProcessAndSave({[structure |-> call.structure, features |-> call.features,
                        annotation |-> call.annotation]})

SaveAgain ==
    /\ call.op = "process_and_save"
    /\ ProcessAndSave({[structure |-> call.structure, features |-> call.features,
                        annotation |-> call.annotation]})
    /\ call'.name = call.name

NextStore == SavePending \/ SaveAgain

SpecStore == InitStore /\ [][NextStore]_vars

(* ------------- a storage location that already holds files ------------- *)
\* files left in output_dir by other writers: no graph, one graph, two graphs
PreGraph(num) ==
    Serialize([num_nodes |-> num,
               ndata |-> [EmptyNData EXCEPT !.feat = Some(Features(num))],
               edges |-> [i \in 1..(num - 1) |-> <<i - 1, i>>]])

PreFiles ==
    {NoFile, File(<<>>), File(<<PreGraph(1)>>), File(<<PreGraph(2)>>),
     File(<<PreGraph(1), PreGraph(2)>>)}

PreArgs ==
    {a \in CacheArgs :
        /\ a.nr_classes = 3
        /\ a.kind = "RAG" => a.hops.type = "int" /\ a.hops.twice \in {0, 2}}

PreInputs(kind) ==
    {inp \in CacheInputs(kind) :
        IF kind = "RAG" THEN inp.structure.w = 1 ELSE Len(inp.structure) <= 1}

InitPre ==
    /\ builder = NoFields
    /\ storage \in [Names -> PreFiles]
    /\ call = [op |-> "none"]
    /\ NoHistory

NextPre ==
    \/ Construct(PreArgs)
    \/ ProcessAndSave(PreInputs(builder.kind))

SpecPre == InitPre /\ [][NextPre]_vars

(* ------------------- maps of four square regions ----------------------- *)
\* the maps of 2 x 2 square blocks of side MaxH, each block of one id
BlockMaps ==
    {m \in {[h |-> 2 * MaxH, w |-> 2 * MaxH, dtype |-> d,
             px |-> [p \in Pixels(2 * MaxH, 2 * MaxH) |->
                       ids[<<((p[1] - 1) \div MaxH) + 1, ((p[2] - 1) \div MaxH) + 1>>]]] :
               ids \in [(1..2) \X (1..2) -> 0..4], d \in Dtypes} :
        Compact(m)}

\* the blocks numbered 1 to 4 row by row
FourSquares(d) ==
    [h |-> 2 * MaxH, w |-> 2 * MaxH, dtype |-> d,
     px |-> [p \in Pixels(2 * MaxH, 2 * MaxH) |->
               2 * ((p[1] - 1) \div MaxH) + ((p[2] - 1) \div MaxH) + 1]]

BlockArgs ==
    {a \in RAGArgs :
        /\ a.base_path = "None" /\ a.nr_classes = 3 /\ a.background_class = 0
        /\ NewBuilder(a).kind = "builder"}

\* a region-adjacency builder with a block map and one feature row per region
InitBlocks ==
    /\ builder \in {NewBuilder(a).builder : a \in BlockArgs}
    /\ storage = [n \in Names |-> NoFile]
    /\ \E m \in BlockMaps :
         call = [op |-> "pending", structure |-> m,
                 features |-> Features(Cardinality(InstanceIds(m) \ {0})),
                 annotation |-> None]
    /\ NoHistory

NextBlocks == ProcessPending

SpecBlocks == InitBlocks /\ [][NextBlocks]_vars

(* ------------ concurrent process_and_save calls on one name ------------ *)
\* save_graphs writes the file of output_path in place, part after part: the
\* node count, the source array, the destination array, the node tensors
\* (features, centroid x, centroid y, and the labels when they are set)
Parts(graph) ==
    LET data == Serialize(graph)
        n == graph.num_nodes
        centroid == graph.ndata.centroid[1]
    IN << <<n>>, data.src, data.dst,
          graph.ndata.feat[1] \o [i \in 1..n |-> centroid[i][1]]
             \o [i \in 1..n |-> centroid[i][2]]
             \o (IF graph.ndata.label = None THEN <<>> ELSE graph.ndata.label[1]) >>

\* a part of the file that no writer has written
Hole == <<-1>>

\* a write at position pos of a file opened for writing: it replaces what is
\* there, and past the end of the file the gap is filled
Overlay(parts, pos, part) ==
    IF pos <= Len(parts) THEN [parts EXCEPT ![pos] = part]
    ELSE parts \o [i \in 1..(pos - 1 - Len(parts)) |-> Hole] \o <<part>>

\* load_graphs on the parts of a file: the graph, or the error of a file that
\* is not the whole of a graph
Decode(parts) ==
    IF \/ Len(parts) < 4
       \/ \E i \in 1..4 : parts[i] = Hole
       \/ Len(parts[2]) # Len(parts[3])
       \/ Len(parts[4]) \notin {3 * parts[1][1], 4 * parts[1][1]}
    THEN Raise("DGLError")
    ELSE LET n == parts[1][1]
             t == parts[4]
         IN Ok([num_nodes |-> n,
                ndata |-> [feat |-> Some(SubSeq(t, 1, n)),
                           centroid |-> Some([i \in 1..n |-> <<t[n + i], t[2 * n + i]>>]),
                           label |-> IF Len(t) = 4 * n /\ n > 0
                                     THEN Some(SubSeq(t, 3 * n + 1, 4 * n)) ELSE None],
                edges |-> [i \in DOMAIN parts[2] |-> <<parts[2][i], parts[3][i]>>]])

NoOutcome == [kind |-> "none", graph |-> None, err |-> NoErr]

\* a caller that has not started
Task(inp) ==
    [pc |-> "start", structure |-> inp.structure, features |-> inp.features,
     annotation |-> inp.annotation, outcome |-> NoOutcome, built |-> NoOutcome,
     pos |-> 0, rank |-> 0, found |-> FALSE, torn |-> FALSE]

\* another caller has opened the file and has not written all of it
BeingWritten(t) == \E u \in DOMAIN tasks : u # t /\ tasks[u].pc = "write"

\* lines 105-109: the assertion on base_path, then output_path.exists()
Exists(t) ==
    /\ tasks[t].pc = "start"
    /\ tasks' = [tasks EXCEPT ![t] =
                   IF builder.base_path = "None"
                   THEN [@ EXCEPT !.pc = "done", !.outcome = Raise("AssertionError")]
                   ELSE IF artifact.exists
                   THEN [@ EXCEPT !.pc = "load", !.found = TRUE, !.torn = BeingWritten(t)]
                   ELSE [@ EXCEPT !.pc = "build"]]
    /\ UNCHANGED <<builder, storage, call, called, stored_by, ncalls, artifact>>

\* lines 110-115: load_graphs and the assertion on what it returns
Load(t) ==
    /\ tasks[t].pc = "load"
    /\ tasks' = [tasks EXCEPT ![t] =
                   [@ EXCEPT !.pc = "done", !.outcome = Decode(artifact.parts),
                             !.torn = @ \/ BeingWritten(t)]]
    /\ UNCHANGED <<builder, storage, call, called, stored_by, ncalls, artifact>>

\* lines 117-119: process
Build(t) ==
    /\ tasks[t].pc = "build"
    /\ LET graph == process(builder, tasks[t].structure, tasks[t].features,
                            tasks[t].annotation)
       IN tasks' = [tasks EXCEPT ![t] =
                      IF graph.kind = "error"
                      THEN [@ EXCEPT !.pc = "done", !.outcome = graph]
                      ELSE [@ EXCEPT !.pc = "open", !.built = graph]]
    /\ UNCHANGED <<builder, storage, call, called, stored_by, ncalls, artifact>>

\* line 120, save_graphs: the file is created, or emptied, at output_path itself
Open(t) ==
    /\ tasks[t].pc = "open"
    /\ artifact' = [exists |-> TRUE, parts |-> <<>>]
    /\ tasks' = [tasks EXCEPT ![t] = [@ EXCEPT !.pc = "write", !.pos = 0]]
    /\ UNCHANGED <<builder, storage, call, called, stored_by, ncalls>>

\* line 120, save_graphs: the next part is written; after the last one the
\* call returns the graph (line 121)
Write(t) ==
    /\ tasks[t].pc = "write"
    /\ LET parts == Parts(tasks[t].built.graph)
           pos == tasks[t].pos + 1
           finished == Cardinality({u \in DOMAIN tasks : tasks[u].rank > 0})
       IN /\ artifact' = [artifact EXCEPT !.parts = Overlay(@, pos, parts[pos])]
          /\ tasks' = [tasks EXCEPT ![t] =
                         IF pos = Len(parts)
                         THEN [@ EXCEPT !.pc = "done", !.pos = pos,
                                        !.outcome = tasks[t].built, !.rank = finished + 1]
                         ELSE [@ EXCEPT !.pos = pos]]
    /\ UNCHANGED <<builder, storage, call, called, stored_by, ncalls>>

RaceArgs ==
    {a \in StoreArgs : a.kind = "RAG" \/ (a.k = 1 /\ a.thresh = None)}

\* what the concurrent callers pass: inputs of the sequential calls that build
RaceInputs(kind) ==
    {inp \in CacheInputs(kind) : inp.annotation = None}

\* two callers of process_and_save with the same output_name, none started
InitRace ==
    /\ builder \in {NewBuilder(a).builder : a \in RaceArgs}
    /\ storage = [n \in Names |-> NoFile]
    /\ call = [op |-> "none"]
    /\ called = [n \in Names |-> FALSE]
    /\ stored_by = [n \in Names |-> None]
    /\ ncalls = 0
    /\ tasks \in [1..2 -> {Task(inp) : inp \in RaceInputs(builder.kind)}]
    /\ artifact = [exists |-> FALSE, parts |-> <<>>]

NextRace ==
    \/ \E t \in DOMAIN tasks : Exists(t)
    \/ \E t \in DOMAIN tasks : Load(t)
    \/ \E t \in DOMAIN tasks : Build(t)
    \/ \E t \in DOMAIN tasks : Open(t)
    \/ \E t \in DOMAIN tasks : Write(t)

SpecRace == InitRace /\ [][NextRace]_vars

(* -------------------- two_hop_neighborhood on its own ------------------ *)
\* the graphs of n nodes with features and centroids, with any edges
HopGraphs(n) ==
    {[num_nodes |-> n,
      ndata |-> [feat |-> Some(Features(n)),
                 centroid |-> Some([i \in 1..n |-> <<i - 1, 0>>]),
                 label |-> None],
      edges |-> NonZero(A, n)] :
        A \in SUBSET ((0..(n - 1)) \X (0..(n - 1)))}

\* a graph of up to MaxId nodes, before the call
InitHops ==
    /\ builder = NoFields
    /\ storage = [n \in Names |-> NoFile]
    /\ \E n \in 0..MaxId : call \in [op : {"pending"}, graph : HopGraphs(n)]
    /\ NoHistory

\* new_graph = two_hop_neighborhood(graph)
TwoHop ==
    /\ call.op = "pending"
    /\ call' = [op |-> "two_hop_neighborhood", graph |-> call.graph,
                new_graph |-> two_hop_neighborhood(call.graph)]
    /\ UNCHANGED <<builder, storage, called, stored_by, ncalls, tasks, artifact>>

NextHops == TwoHop

SpecHops == InitHops /\ [][NextHops]_vars

(* ======================================================================= *)
(*                          properties of the code                         *)
(* ======================================================================= *)
Returned == call.op \in {"process", "process_and_save"} /\ call.outcome.kind = "graph"

Saving == call.op = "process_and_save"

\* the node count that the structure of the last call implies
ImpliedNodes ==
    IF builder.kind = "RAG" THEN Cardinality(InstanceIds(call.structure) \ {0})
    ELSE Len(call.structure)

\* C1: no graph returned by process, of either builder and with or without
\* background pixels in the map, has an edge (i, i)
NoSelfLoops ==
    Returned => \A i \in DOMAIN call.outcome.graph.edges :
                   call.outcome.graph.edges[i][1] # call.outcome.graph.edges[i][2]

\* C2 as stated: a process_and_save call that is not the first one with its
\* name runs no build and saves nothing
OnlyFirstCallBuilds ==
    Saving /\ ~call.first => ~call.built /\ ~call.saved

\* C2 amended: a name is saved at most once, by the first call with that name
\* whose build returns a graph; the file then stays as that call wrote it, and
\* every later call with the name runs no build and returns that call's graph
SavedOnceThenLoaded ==
    /\ \A n \in Names :
         storage[n].exists =>
            /\ stored_by[n] # None
            /\ storage[n] = File(save_graphs(<<stored_by[n][1]>>))
    /\ Saving /\ call.existed =>
         /\ ~call.built /\ ~call.saved /\ call.loaded
         /\ call.outcome.kind = "graph"
         /\ call.outcome.graph = stored_by[call.name][1]
    /\ Saving /\ call.built => ~call.existed
    /\ Saving /\ call.saved => call.outcome.kind = "graph" /\ call.built

\* what process would return for the inputs of the last call
Fresh == process(builder, call.structure, call.features, call.annotation)

\* a later call got the stored graph although its own inputs build another one
LoadedInsteadOfBuilt ==
    /\ Saving /\ call.existed /\ ~call.first
    /\ call.outcome.kind = "graph"
    /\ Fresh.kind = "graph" /\ Fresh.graph # call.outcome.graph

\* C3: a process_and_save call that finds no file and returns a graph has run
\* process and left a file holding exactly that one graph
CacheMissPersists ==
    Saving /\ ~call.existed /\ call.outcome.kind = "graph" =>
       /\ call.built /\ call.saved
       /\ storage[call.name].exists
       /\ Len(storage[call.name].graphs) = 1
       /\ load_graphs(storage[call.name].graphs) = <<call.outcome.graph>>

MissBuiltAndSaved ==
    /\ Saving /\ ~call.existed /\ call.outcome.kind = "graph"
    /\ Len(call.outcome.graph.edges) > 0
    /\ storage[call.name].exists

ManyClassesRejectedAtConstruction ==
    call.op = "init" /\ call.args.nr_classes >= 256 => call.outcome.kind = "error"

\* C6: RAGGraphBuilder(hops=...) with hops < 1 or hops not an int raises, no
\* builder exists afterwards and nothing else has happened
InvalidHops ==
    /\ call.op = "init" /\ call.args.kind = "RAG"
    /\ (call.args.hops.type \notin {"int", "bool"} \/ call.args.hops.twice < 2)

NoStorageLocationFails ==
    Saving /\ builder.base_path = "None" =>
       /\ call.outcome.kind = "error" /\ call.outcome.err = "AssertionError"
       /\ ~call.built /\ ~call.loaded /\ ~call.saved
       /\ \A n \in Names : ~storage[n].exists

FailedWithoutStorageLocation ==
    /\ Saving /\ builder.base_path = "None"
    /\ call.outcome.kind = "error"
    /\ Fresh.kind = "graph"

\* C8: a process_and_save call that finds a file with no graph or with several
\* raises AssertionError; it runs no build and leaves the file as it was
CorruptArtifactPropagates ==
    [][(/\ call'.op = "process_and_save" /\ ncalls' = ncalls + 1
        /\ storage[call'.name].exists
        /\ Len(storage[call'.name].graphs) # 1)
       => /\ call'.outcome.kind = "error" /\ call'.outcome.err = "AssertionError"
          /\ ~call'.built /\ ~call'.saved
          /\ storage' = storage]_vars

CorruptArtifactRead ==
    /\ Saving /\ call.existed /\ call.loaded
    /\ Len(storage[call.name].graphs) # 1
    /\ call.outcome.kind = "error"
    /\ Fresh.kind = "graph"

OutDegree(graph, i) == Cardinality({j \in DOMAIN graph.edges : graph.edges[j][1] = i})

\* C11: process of the kNN builder without thresh, on any point set with one
\* feature row per point, returns a graph in which every node has at most k
\* outgoing edges, and exactly k whenever there are at least k other points
KNNDegreeBound ==
    /\ call.op = "process" /\ builder.kind = "KNN" /\ builder.thresh = None
    /\ Len(call.features) = Len(call.structure) /\ call.annotation = None
    => /\ call.outcome.kind = "graph"
       /\ \A i \in 0..(Len(call.structure) - 1) :
            /\ OutDegree(call.outcome.graph, i) <= builder.k
            /\ Len(call.structure) - 1 >= builder.k
                  => OutDegree(call.outcome.graph, i) = builder.k


ClassPixels(id, c) ==
    {p \in Mask(call.structure, id) : call.annotation[1][p] = c}

\* the label that the rule gives region id: background when no pixel of the
\* region has another class, otherwise the class other than background with the
\* most pixels in the region, the lowest such class on a tie
FollowsLabelRule(id, label) ==
    LET fg == (0..(builder.nr_classes - 1)) \ {builder.background_class}
    IN IF \A c \in fg : ClassPixels(id, c) = {}
       THEN label = builder.background_class
       ELSE /\ label \in fg
            /\ \A c \in fg :
                 /\ Cardinality(ClassPixels(id, c)) <= Cardinality(ClassPixels(id, label))
                 /\ Cardinality(ClassPixels(id, c)) = Cardinality(ClassPixels(id, label))
                       => label <= c

\* C13: the label that _set_node_labels computes for each region, and the
\* label of each node of a graph that process returns, is the background class
\* when no pixel of the region has another class, and otherwise the class other
\* than background with the most pixels in the region, the lowest on a tie
LabelRule ==
    call.op = "process" /\ builder.kind = "RAG" /\ call.annotation # None
    => /\ call.outcome.kind = "graph" =>
            \A id \in 1..call.outcome.graph.num_nodes :
               FollowsLabelRule(id, call.outcome.graph.ndata.label[1][id])
       /\ LET computed == RAG_set_node_labels(builder, call.structure, call.annotation[1])
          IN computed.kind = "labels" =>
               \A id \in InstanceIds(call.structure) \ {0} :
                  FollowsLabelRule(id, computed.labels[id])

\* a region where the background class has the most pixels and whose label is
\* another class
MinorityClassLabelled ==
    /\ call.op = "process" /\ builder.kind = "RAG" /\ call.annotation # None
    /\ call.outcome.kind = "graph"
    /\ \E id \in 1..call.outcome.graph.num_nodes :
         LET label == call.outcome.graph.ndata.label[1][id]
         IN /\ label # builder.background_class
            /\ Cardinality(ClassPixels(id, builder.background_class))
                 > Cardinality(ClassPixels(id, label))


\* C14: for the map of four square regions numbered 1 to 4 row by row, kernel
\* size 3 and hops 1, the edges are those between regions that share a side,
\* in both directions, and nothing else: no edge joins the diagonally opposite
\* regions 1 and 4 or 2 and 3, and no edge is a self-loop
FourSquaresOrthogonal ==
    /\ call.op = "process" /\ builder.kind = "RAG"
    /\ builder.kernel_size = 3 /\ builder.hops = 1
    /\ call.structure \in {FourSquares(d) : d \in Dtypes}
    => /\ call.outcome.kind = "graph"
       /\ EdgeSet(call.outcome.graph) =
            {<<0, 1>>, <<1, 0>>, <<0, 2>>, <<2, 0>>, <<1, 3>>, <<3, 1>>, <<2, 3>>, <<3, 2>>}


\* C15: process of the region-adjacency builder on a map of background only,
\* with no feature rows, returns a graph with no nodes and no edges, with or
\* without an annotation
BackgroundOnlyIsEmptyGraph ==
    /\ call.op = "process" /\ builder.kind = "RAG" /\ builder.nr_classes < 256
    /\ InstanceIds(call.structure) = {0} /\ call.features = <<>>
    => /\ call.outcome.kind = "graph"
       /\ call.outcome.graph.num_nodes = 0
       /\ call.outcome.graph.edges = <<>>


\* the call ran process: a process call, or a process_and_save call that built
RanBuild(c) ==
    c.op = "process" \/ (c.op = "process_and_save" /\ c.built)

BothStored ==
    /\ tasks # <<>>
    /\ \A t \in DOMAIN tasks :
         tasks[t].pc = "done" /\ tasks[t].rank > 0 /\ ~tasks[t].found

\* C17: when two concurrent process_and_save calls on one name have both built
\* and stored, the file holds the whole graph of the call whose save_graphs
\* finished last
LastWriterWins ==
    BothStored =>
       \E t \in DOMAIN tasks :
          /\ tasks[t].rank = Cardinality(DOMAIN tasks)
          /\ artifact.parts = Parts(tasks[t].outcome.graph)

\* C18: no process_and_save call finds the file of its name in existence, or
\* reads it, while another call has opened it and not written all of it
NoPartialArtifactSeen ==
    \A t \in DOMAIN tasks : ~tasks[t].torn


\* C19: process raises, and returns no graph, whenever the number of feature
\* rows is not the number of positive region ids of the map, or of points
DimensionMismatchFails ==
    /\ call.op = "process"
    /\ Len(call.features) # ImpliedNodes
    => /\ call.outcome.kind = "error"
       /\ call.outcome.graph = None

\* a call with one feature row more than the map has regions, where the
\* regions alone would have built a graph with edges
OneRowTooManyRejected ==
    /\ call.op = "process" /\ builder.kind = "RAG"
    /\ Len(call.features) = ImpliedNodes + 1
    /\ call.outcome.kind = "error"
    /\ LET alone == process(builder, call.structure, Features(ImpliedNodes), call.annotation)
       IN alone.kind = "graph" /\ alone.graph.edges # <<>>


\* the positive region ids under the boundary ring of region id: the pixels of
\* the kernel_size x kernel_size dilation of the region that are not its own
RingNeighbours(id) ==
    LET own == {p \in DOMAIN call.structure.px : call.structure.px[p] = id}
        a == builder.kernel_size \div 2
        near(p) == \E q \in own : /\ q[1] - p[1] \in (-a)..(builder.kernel_size - 1 - a)
                                  /\ q[2] - p[2] \in (-a)..(builder.kernel_size - 1 - a)
    IN {call.structure.px[p] : p \in {q \in DOMAIN call.structure.px : q \notin own /\ near(q)}}
       \ {0}

\* C20: with hops = 1 the region-adjacency builder returns exactly the edges
\* (i-1, j-1) for which the positive region id j lies under the boundary ring
\* of region i; background under the ring makes no edge
ExactRingEdges ==
    /\ call.op = "process" /\ builder.kind = "RAG" /\ builder.hops = 1
    /\ Len(call.features) = ImpliedNodes /\ call.annotation = None
    => /\ call.outcome.kind = "graph"
       /\ EdgeSet(call.outcome.graph) =
            UNION {{<<i - 1, j - 1>> : j \in RingNeighbours(i)} : i \in 1..ImpliedNodes}


RECURSIVE WithinSteps(_, _, _)
\* the pairs (i, j) of 0..n-1 with a path of 1 to steps edges of A from i to j
WithinSteps(A, n, steps) ==
    IF steps <= 1 THEN A
    ELSE LET shorter == WithinSteps(A, n, steps - 1)
         IN shorter \cup {e \in (0..(n - 1)) \X (0..(n - 1)) :
                            \E k \in 0..(n - 1) : <<e[1], k>> \in shorter /\ <<k, e[2]>> \in A}

\* C21: with hops = h > 1 the graph that the region-adjacency builder returns
\* has an edge (i, j), i # j, exactly when j is reachable from i within h steps
\* of the edges it returns for the same inputs with hops = 1
MultiHopReachability ==
    /\ call.op = "process" /\ builder.kind = "RAG" /\ builder.hops > 1
    /\ call.outcome.kind = "graph"
    => LET one == process([builder EXCEPT !.hops = 1], call.structure,
                          call.features, call.annotation)
           n == call.outcome.graph.num_nodes
       IN /\ one.kind = "graph"
          /\ {e \in EdgeSet(call.outcome.graph) : e[1] # e[2]}
               = {e \in WithinSteps(EdgeSet(one.graph), n, builder.hops) : e[1] # e[2]}


\* C25: two_hop_neighborhood returns a graph with the node count and the node
\* attributes of its input, whose edges are exactly the pairs (i, j), i # j,
\* with (A + A.A)[i][j] >= 1 for the input's adjacency A; so it has no
\* self-loop, also when the input has an isolated node
TwoHopExact ==
    call.op = "two_hop_neighborhood" =>
       LET n == call.graph.num_nodes
           A == EdgeSet(call.graph)
       IN /\ call.new_graph.num_nodes = n
          /\ call.new_graph.ndata = call.graph.ndata
          /\ EdgeSet(call.new_graph) =
               {e \in (0..(n - 1)) \X (0..(n - 1)) :
                  /\ e[1] # e[2]
                  /\ \/ e \in A
                     \/ \E k \in 0..(n - 1) : <<e[1], k>> \in A /\ <<k, e[2]>> \in A}


\* C22: the edges that the kNN builder returns with thresh are the edges it
\* returns without thresh, less those whose endpoints are further apart than
\* thresh: an edge at a distance of exactly thresh stays, and nothing is added
ThreshDropsOnlyFarther ==
    /\ call.op = "process" /\ builder.kind = "KNN" /\ builder.thresh # None
    /\ call.outcome.kind = "graph"
    => LET unfiltered == process([builder EXCEPT !.thresh = None], call.structure,
                                 call.features, call.annotation)
           t == builder.thresh[1]
           far(e) == LET a == call.structure[e[1] + 1]
                         b == call.structure[e[2] + 1]
                     IN (a[1] - b[1]) * (a[1] - b[1]) + (a[2] - b[2]) * (a[2] - b[2]) > t * t
       IN /\ unfiltered.kind = "graph"
          /\ EdgeSet(call.outcome.graph) = {e \in EdgeSet(unfiltered.graph) : ~far(e)}


\* the rounded mean (column, row) of the pixels of region id, counted from 0
MeanPosition(id) ==
    LET own == {p \in DOMAIN call.structure.px : call.structure.px[p] = id}
        cnt == Cardinality(own)
    IN <<Round(SumOver(own, [p \in own |-> p[2] - 1]), cnt),
         Round(SumOver(own, [p \in own |-> p[1] - 1]), cnt)>>

\* C23: for a map with region ids 1..N, with or without background pixels, and
\* N feature rows, process with hops = 1 returns a graph in which node i has
\* the centroid of region i+1, the label of region i+1 when an annotation is
\* given, and the edges to the ring neighbours of region i+1
NodeIndexAlignment ==
    /\ call.op = "process" /\ builder.kind = "RAG" /\ builder.hops = 1
    /\ builder.nr_classes < 256
    /\ ImpliedNodes >= 1 /\ Len(call.features) = ImpliedNodes
    => /\ call.outcome.kind = "graph"
       /\ LET g == call.outcome.graph
          IN \A id \in 1..ImpliedNodes :
                /\ g.ndata.centroid[1][id] = MeanPosition(id)
                /\ call.annotation # None => FollowsLabelRule(id, g.ndata.label[1][id])
                /\ {e \in EdgeSet(g) : e[1] = id - 1}
                     = {<<id - 1, j - 1>> : j \in RingNeighbours(id)}


\* the call is a process_and_save call in which process raised
BuildFailed(c) ==
    c.op = "process_and_save" /\ c.built /\ c.outcome.kind = "error"

\* C24: a process_and_save call in which process raises writes nothing: every
\* file is as it was and the name still has none; and the next call with that
\* name runs process again and loads nothing
FailedBuildStoresNothing ==
    [][ncalls' = ncalls + 1 =>
          /\ BuildFailed(call') =>
               /\ storage' = storage
               /\ ~storage'[call'.name].exists
               /\ ~call'.saved
          /\ (BuildFailed(call) /\ call'.op = "process_and_save" /\ call'.name = call.name)
             => call'.built /\ ~call'.loaded]_vars

\* a call that built and saved under a name whose earlier call had raised in
\* process
RebuiltAfterFailure ==
    /\ Saving /\ ~call.first /\ ~call.existed
    /\ call.built /\ call.saved /\ call.outcome.kind = "graph"

====
